---- MODULE Spec2Model ----
(***************************************************************************)
(* A model of src/index.ts: parse(content) runs the Tokeniser over the     *)
(* whole source, then the recursive-descent Parser over the tokens, then   *)
(* getObject over the AST.  Characters are one-character strings, texts    *)
(* are sequences of characters, indices are 0-based as in the code.        *)
(***************************************************************************)
EXTENDS Integers, Sequences, FiniteSets, TLC

VARIABLES input, source, tokeniser, parser, pc, result

vars == <<input, source, tokeniser, parser, pc, result>>

(***************************************************************************)
(* Characters                                                              *)
(***************************************************************************)
Digit == {"0", "1", "2", "3", "4", "5", "6", "7", "8", "9"}

Alpha ==
  {"a", "b", "c", "d", "e", "f", "g", "h", "i", "j", "k", "l", "m",
   "n", "o", "p", "q", "r", "s", "t", "u", "v", "w", "x", "y", "z",
   "A", "B", "C", "D", "E", "F", "G", "H", "I", "J", "K", "L", "M",
   "N", "O", "P", "Q", "R", "S", "T", "U", "V", "W", "X", "Y", "Z"}

\* Number.isInteger(parseInt(character)) of a single character
isDigit(char) == char \in Digit

\* the condition of the number run: a digit or "."
isNumberChar(char) == isDigit(char) \/ char = "."

\* /[a-zA-Z]/.test(character)
isAlpha(char) == char \in Alpha

\* char.match(/^[0-9a-zA-Z]+$/)
isAlphaNumeric(char) == char \in (Alpha \cup Digit)

isNotQuote(char) == char # "\""

(***************************************************************************)
(* Locations and errors                                                    *)
(***************************************************************************)
\* loc.column is the quotient index / line, kept as the two integers
Loc(line, index) == [line |-> line, column |-> [num |-> index, den |-> line]]

NoLoc == Loc(0, 0)

\* `${loc.line}:${parseInt(loc.column.toString())}`
getLineString(loc) == <<loc.line, loc.column.num \div loc.column.den>>

NoError == [message |-> "", arg |-> <<>>, at |-> <<>>]

\* new Error(helpers.getErrorMessage(message, loc))
getErrorMessage(message, arg, loc) ==
  [message |-> message, arg |-> arg, at |-> getLineString(loc)]

\* new Error(`Invalid number ${decimals}`): the text carries the count only
InvalidNumberError(decimals) ==
  [message |-> "Invalid number", arg |-> <<decimals>>, at |-> <<>>]

\* new Error("Expected a list or object")
ExpectedListOrObject ==
  [message |-> "Expected a list or object", arg |-> <<>>, at |-> <<>>]

\* reading a property of undefined
TypeError == [message |-> "TypeError", arg |-> <<>>, at |-> <<>>]

(***************************************************************************)
(* Tokeniser                                                               *)
(***************************************************************************)
Token(value, type, loc) == [loc |-> loc, type |-> type, value |-> value]

\* this.tokens[i] past the end of the array
Undefined == Token(<<>>, "undefined", NoLoc)

IsUndefined(x) == x.type = "undefined"

NewTokeniser == [index |-> 0, tokens |-> <<>>, line |-> 1, error |-> NoError]

\* the three conditions tokenise hands to make, and the digit runs that
\* parseInt and parseFloat read
holds(cond, char) ==
  CASE cond = "number"     -> isNumberChar(char)
    [] cond = "digits"     -> isDigit(char)
    [] cond = "string"     -> isNotQuote(char)
    [] cond = "identifier" -> isAlphaNumeric(char)

\* Tokeniser.make: the maximal run of characters satisfying cond from index
make(cond, src, index) ==
  LET stop == {j \in index .. Len(src) - 1 : ~holds(cond, src[j + 1])}
      end  == IF stop = {} THEN Len(src)
              ELSE CHOOSE j \in stop : \A k \in stop : j <= k
  IN  [value |-> SubSeq(src, index + 1, end), index |-> end]

\* mutant: the index is moved back once too often
stepBack_twice(index) == index - 2

\* this.index -= 1 after a number or an identifier
stepBack(index) == index - 1

CountDots(num) == Cardinality({i \in 1 .. Len(num) : num[i] = "."})

PushToken(T, value, type, index) ==
  [T EXCEPT !.tokens = Append(@, Token(value, type, Loc(T.line, index)))]

\* mutant: a space starts an identifier
startsIdentifier_space(character) == isAlpha(character) \/ character = " "

startsIdentifier(character) == isAlpha(character)

\* One pass of the while loop of Tokeniser.tokenise
tokeniseIteration(T, src) ==
  LET character == src[T.index + 1] IN
  IF isDigit(character) THEN
    LET m == make("number", src, T.index)
        decimals == CountDots(m.value)
    IN  IF decimals > 1
        THEN [T EXCEPT !.index = m.index, !.error = InvalidNumberError(decimals)]
        ELSE [PushToken(T, m.value, "NUMBER", m.index)
                EXCEPT !.index = stepBack(m.index) + 1]
  ELSE IF character = "\"" THEN
    LET m == make("string", src, T.index + 1)
    IN  [PushToken(T, m.value, "STRING", m.index) EXCEPT !.index = m.index + 1]
  ELSE IF startsIdentifier(character) THEN
    LET m == make("identifier", src, T.index)
        type == IF m.value \in {<<"t", "r", "u", "e">>, <<"f", "a", "l", "s", "e">>}
                THEN "BOOLEAN" ELSE "NULL"
    IN  IF type = "NULL" /\ m.value # <<"n", "u", "l", "l">>
        THEN [T EXCEPT !.index = m.index,
                       !.error = getErrorMessage("Unknown value", m.value,
                                                 Loc(T.line, m.index))]
        ELSE [PushToken(T, m.value, type, m.index)
                EXCEPT !.index = stepBack(m.index) + 1]
  ELSE IF character \in {"{", "}"} THEN
    [PushToken(T, <<character>>,
               IF character = "{" THEN "LEFT_BRACKET" ELSE "RIGHT_BRACKET", T.index)
       EXCEPT !.index = T.index + 1]
  ELSE IF character \in {"[", "]"} THEN
    [PushToken(T, <<character>>,
               IF character = "[" THEN "LEFT_SQUARE" ELSE "RIGHT_SQUARE", T.index)
       EXCEPT !.index = T.index + 1]
  ELSE IF character = "," THEN
    [PushToken(T, <<",">>, "COMMA", T.index) EXCEPT !.index = T.index + 1]
  ELSE IF character = ":" THEN
    [PushToken(T, <<":">>, "SEPARATOR", T.index) EXCEPT !.index = T.index + 1]
  ELSE IF character = "\n" THEN
    [T EXCEPT !.line = T.line + 1, !.index = T.index + 1]
  ELSE [T EXCEPT !.index = T.index + 1]

RECURSIVE tokenise(_, _)
\* Tokeniser.tokenise: the loop run until the source is used up or it throws
tokenise(T, src) ==
  IF T.error # NoError \/ ~(Len(src) > T.index) THEN T
  ELSE tokenise(tokeniseIteration(T, src), src)

(***************************************************************************)
(* Parser.  The recursion of the code is an explicit stack of frames: one  *)
(* frame per active call of parse, parseArrayExpression, parseDictionary   *)
(* or parsePairExpression.  A frame's pc is "enter" (the call has just     *)
(* begun), "while" (at the loop test), "call" (about to call               *)
(* parseExpression) or "value" (the call it made has returned into         *)
(* parser.ret).  mark is the cursor where the current pass of the loop     *)
(* began.                                                                  *)
(***************************************************************************)
ScalarTypes == {"NUMBER", "STRING", "NULL", "BOOLEAN"}

Frame(fn, fpc, elements, next, mark) ==
  [fn |-> fn, pc |-> fpc, elements |-> elements, next |-> next, mark |-> mark]

\* new Parser(tokens), parse() entered
NewParser(tokens) ==
  [tokens |-> tokens, index |-> 0,
   stack |-> <<Frame("parse", "call", <<>>, Undefined, 0)>>,
   ret |-> Undefined, error |-> NoError]

NoParser ==
  [tokens |-> <<>>, index |-> 0, stack |-> <<>>, ret |-> Undefined,
   error |-> NoError]

\* this.tokens[i]
TokenAt(P, i) ==
  IF i >= 0 /\ i < Len(P.tokens) THEN P.tokens[i + 1] ELSE Undefined

Top(P) == P.stack[Len(P.stack)]

SetTop(P, frame) == [P EXCEPT !.stack[Len(P.stack)] = frame]

Push(P, frame) == [P EXCEPT !.stack = Append(@, frame)]

\* a throw leaves the parser as it stands
Throw(P, error) == [P EXCEPT !.error = error]

\* parseExpression hands a value to its caller, the top frame
Yield(P, node) ==
  [SetTop(P, [Top(P) EXCEPT !.pc = "value"]) EXCEPT !.ret = node]

\* the top frame's function returns node to the frame below it
Return(P, node) ==
  LET Q == [P EXCEPT !.stack = SubSeq(@, 1, Len(@) - 1)] IN Yield(Q, node)

ListNode(elements) == [type |-> "List", elements |-> elements]

ObjectNode(properties) == [type |-> "Object", value |-> properties]

PropertyNode(key, value) == [type |-> "Property", key |-> key, value |-> value]

\* Parser.advance: this.index += 1; the token read is TokenAt(P, P.index)
advance(P) == [P EXCEPT !.index = @ + 1]

\* Parser.parseExpression, called by the top frame
parseExpression(P) ==
  LET current == TokenAt(P, P.index) IN
  IF IsUndefined(current) THEN Throw(P, TypeError)
  ELSE IF current.type \in ScalarTypes THEN Yield(P, current)
  ELSE IF current.type = "LEFT_BRACKET"
    THEN Push(P, Frame("parseDictionary", "enter", <<>>, Undefined, P.index))
  ELSE IF current.type = "LEFT_SQUARE"
    THEN Push(P, Frame("parseArrayExpression", "enter", <<>>, Undefined, P.index))
  ELSE Yield(P, Undefined)

\* the test of the list's while loop, negated: next.type == Types.RIGHT_BRACKET
listLoopEnds(next) == next.type = "RIGHT_BRACKET"

\* Parser.parseArrayExpression, one step of the top frame
parseArrayExpression(P) ==
  LET f == Top(P) IN
  CASE f.pc = "enter" ->
         LET Q == advance(P) IN
         SetTop(Q, [f EXCEPT !.pc = "while", !.next = TokenAt(Q, Q.index),
                             !.mark = Q.index])
    [] f.pc = "while" ->
         IF IsUndefined(f.next) THEN Throw(P, TypeError)
         ELSE IF listLoopEnds(f.next) THEN Return(P, ListNode(f.elements))
         ELSE IF TokenAt(P, P.index).type = "RIGHT_SQUARE"
           THEN Return(P, ListNode(f.elements))
         ELSE SetTop(P, [f EXCEPT !.pc = "call", !.mark = P.index])
    [] f.pc = "value" ->
         IF IsUndefined(P.ret)
         THEN Throw(P, getErrorMessage("Invalid element in array", <<>>, f.next.loc))
         ELSE
           LET elements == Append(f.elements, P.ret)
               Q == advance(P)
               comma == TokenAt(Q, Q.index)
           IN  IF comma.type = "RIGHT_SQUARE" THEN Return(Q, ListNode(elements))
               ELSE IF IsUndefined(comma) THEN Throw(Q, TypeError)
               ELSE IF comma.type # "COMMA"
                 THEN Throw(Q, getErrorMessage("Expected a comma", <<>>, comma.loc))
               ELSE
                 LET R == advance(Q)
                     next == TokenAt(R, R.index)
                 IN  IF IsUndefined(next)
                     THEN Throw(R, getErrorMessage("Unexpected end", <<>>, comma.loc))
                     ELSE SetTop(R, [f EXCEPT !.pc = "while", !.next = next,
                                              !.elements = elements])

\* Parser.parsePairExpression(current), one step of the top frame;
\* the frame's next field holds current, the key token
parsePairExpression(P) ==
  LET f == Top(P)
      current == f.next
  IN
  CASE f.pc = "enter" ->
         IF current.type # "STRING"
         THEN Throw(P, getErrorMessage("Keys must be strings", <<>>, current.loc))
         ELSE
           LET Q == advance(P)
               next == TokenAt(Q, Q.index)
           IN  IF IsUndefined(next) THEN Throw(Q, TypeError)
               ELSE IF next.type # "SEPARATOR"
                 THEN Throw(Q, getErrorMessage("Expected a separator", <<>>, next.loc))
               ELSE SetTop([Q EXCEPT !.index = @ + 1], [f EXCEPT !.pc = "call"])
    [] f.pc = "value" -> Return(P, PropertyNode(current, P.ret))

\* Parser.parseDictionary, one step of the top frame
parseDictionary(P) ==
  LET f == Top(P) IN
  CASE f.pc = "enter" ->
         LET Q == advance(P)
             next == TokenAt(Q, Q.index)
         IN  IF IsUndefined(next) THEN Return(Q, ObjectNode(<<>>))
             ELSE SetTop(Q, [f EXCEPT !.pc = "while", !.next = next,
                                      !.mark = Q.index])
    [] f.pc = "while" ->
         IF f.next.type = "RIGHT_BRACKET" THEN Return(P, ObjectNode(f.elements))
         ELSE Push(SetTop(P, [f EXCEPT !.pc = "pair", !.mark = P.index]),
                   Frame("parsePairExpression", "enter", <<>>, f.next, P.index))
    [] f.pc = "value" ->
         LET properties == Append(f.elements, P.ret)
             Q == advance(P)
             comma == TokenAt(Q, Q.index)
         IN  IF IsUndefined(comma) THEN Return(Q, ObjectNode(properties))
             ELSE IF comma.type = "RIGHT_BRACKET"
               THEN Return(Q, ObjectNode(properties))
             ELSE IF comma.type \notin {"COMMA", "RIGHT_BRACKET"}
               THEN Throw(Q, getErrorMessage("Expected a comma", <<>>, comma.loc))
             ELSE
               LET R == advance(Q)
                   next == TokenAt(R, R.index)
               IN  IF IsUndefined(next) THEN Return(R, ObjectNode(properties))
                   ELSE SetTop(R, [f EXCEPT !.pc = "while", !.next = next,
                                            !.elements = properties])

\* the parser has thrown, or parse() has its value
ParserDone(P) ==
  P.error # NoError \/ (Len(P.stack) = 1 /\ Top(P).pc = "value")

\* the step the parser takes next
parserStep(P) ==
  LET f == Top(P) IN
  CASE f.pc = "call"                 -> parseExpression(P)
    [] f.fn = "parseArrayExpression" -> parseArrayExpression(P)
    [] f.fn = "parseDictionary"      -> parseDictionary(P)
    [] f.fn = "parsePairExpression"  -> parsePairExpression(P)

RECURSIVE runParser(_)
\* Parser.parse: parseExpression run to its return or throw
runParser(P) == IF ParserDone(P) THEN P ELSE runParser(parserStep(P))

(***************************************************************************)
(* getObject.  A JavaScript value is [t |-> its kind, v |-> its content];  *)
(* a number is its integer part and its fraction digits without trailing   *)
(* zeros; an object is its own properties in insertion order.              *)
(***************************************************************************)
JSNumber(int, frac) == [t |-> "number", v |-> [int |-> int, frac |-> frac]]

JSString(text) == [t |-> "string", v |-> text]

JSBoolean(b) == [t |-> "boolean", v |-> b]

JSNull == [t |-> "null", v |-> <<>>]

JSUndefined == [t |-> "undefined", v |-> <<>>]

JSList(values) == [t |-> "list", v |-> values]

JSObject(properties) == [t |-> "object", v |-> properties]

\* the evaluation threw a TypeError
Thrown == [t |-> "throw", v |-> <<>>]

DigitValue(char) ==
  CASE char = "0" -> 0 [] char = "1" -> 1 [] char = "2" -> 2 [] char = "3" -> 3
    [] char = "4" -> 4 [] char = "5" -> 5 [] char = "6" -> 6 [] char = "7" -> 7
    [] char = "8" -> 8 [] char = "9" -> 9

RECURSIVE DigitsValue(_)
DigitsValue(digits) ==
  IF Len(digits) = 0 THEN 0
  ELSE 10 * DigitsValue(SubSeq(digits, 1, Len(digits) - 1))
       + DigitValue(digits[Len(digits)])

RECURSIVE StripZeros(_)
StripZeros(digits) ==
  IF Len(digits) > 0 /\ digits[Len(digits)] = 0
  THEN StripZeros(SubSeq(digits, 1, Len(digits) - 1))
  ELSE digits

\* parseInt(text) of a text that begins with a digit: its leading digits
parseInt(text) ==
  JSNumber(DigitsValue(make("digits", text, 0).value), <<>>)

\* parseFloat(text) of a number token's text: digits, "." and digits
parseFloat(text) ==
  LET whole == make("digits", text, 0)
      rest  == SubSeq(text, whole.index + 2, Len(text))
      frac  == make("digits", rest, 0).value
  IN  JSNumber(DigitsValue(whole.value),
               StripZeros([i \in 1 .. Len(frac) |-> DigitValue(frac[i])]))

\* mutant: a key that is already there keeps its first value
SetProperty_first(properties, key, value) ==
  IF \E i \in 1 .. Len(properties) : properties[i].key = key
  THEN properties
  ELSE Append(properties, [key |-> key, value |-> value])

\* value[key] = keyValue on an object's own properties
SetProperty(properties, key, value) ==
  IF \E i \in 1 .. Len(properties) : properties[i].key = key
  THEN [i \in 1 .. Len(properties) |->
          IF properties[i].key = key
          THEN [key |-> key, value |-> value] ELSE properties[i]]
  ELSE Append(properties, [key |-> key, value |-> value])

RECURSIVE toValue(_)
RECURSIVE assignProperties(_, _)
\* the for loop over token.value of getObject's parseExpression
assignProperties(properties, value) ==
  IF Len(properties) = 0 THEN JSObject(value)
  ELSE LET property == Head(properties)
           keyValue == toValue(property.value)
       IN  IF keyValue.t = "throw" THEN Thrown
           ELSE assignProperties(Tail(properties),
                                 SetProperty(value, property.key.value, keyValue))

\* the inner parseExpression of getObject
toValue(token) ==
  IF IsUndefined(token) THEN Thrown
  ELSE IF token.type = "List" THEN
    LET values == [i \in 1 .. Len(token.elements) |-> toValue(token.elements[i])]
    IN  IF \E i \in 1 .. Len(values) : values[i].t = "throw"
        THEN Thrown ELSE JSList(values)
  ELSE IF token.type = "NUMBER" THEN
    IF \E i \in 1 .. Len(token.value) : token.value[i] = "."
    THEN parseFloat(token.value) ELSE parseInt(token.value)
  ELSE IF token.type = "STRING" THEN JSString(token.value)
  ELSE IF token.type = "NULL" THEN JSNull
  ELSE IF token.type = "BOOLEAN" THEN JSBoolean(token.value = <<"t", "r", "u", "e">>)
  ELSE IF token.type = "Object" THEN assignProperties(token.value, <<>>)
  ELSE JSUndefined

Pending == [status |-> "pending", value |-> JSUndefined, error |-> NoError]

Returned(value) == [status |-> "returned", value |-> value, error |-> NoError]

Threw(error) == [status |-> "threw", value |-> JSUndefined, error |-> error]

\* getObject(ast)
getObject(ast) ==
  IF IsUndefined(ast) THEN Threw(TypeError)
  ELSE IF ast.type \notin {"List", "Object"} THEN Threw(ExpectedListOrObject)
  ELSE LET value == toValue(ast)
       IN  IF value.t = "throw" THEN Threw(TypeError) ELSE Returned(value)

\* mutant: tokens left after the first value are an error
parserResult_strict(P) ==
  IF P.index + 1 < Len(P.tokens) THEN Undefined ELSE P.ret

\* what parser.parse() hands to getObject: the first value, whatever follows
parserResult(P) == P.ret

\* parse(content): the three stages in turn
decode(content) ==
  LET T == tokenise(NewTokeniser, content) IN
  IF T.error # NoError THEN Threw(T.error)
  ELSE LET P == runParser(NewParser(T.tokens))
       IN  IF P.error # NoError THEN Threw(P.error)
           ELSE getObject(parserResult(P))

(***************************************************************************)
(* The documents decode is run on.  A document is drawn with the value the *)
(* grammar and the conversion rules give it, built on the way down the     *)
(* derivation, not by the decoder.                                         *)
(***************************************************************************)
MaxTokens == 9

MaxTrailTokens == 5

MaxTruncTokens == 6

MaxLexemes == 4

MaxRaw == 3

NoValue == [t |-> "none", v |-> <<>>]

Scalars ==
  { [text |-> <<"1">>, value |-> JSNumber(1, <<>>)],
    [text |-> <<"2", ".", "5">>, value |-> JSNumber(2, <<5>>)],
    [text |-> <<"\"", "a", "\"">>, value |-> JSString(<<"a">>)],
    [text |-> <<"t", "r", "u", "e">>, value |-> JSBoolean(TRUE)],
    [text |-> <<"f", "a", "l", "s", "e">>, value |-> JSBoolean(FALSE)],
    [text |-> <<"n", "u", "l", "l">>, value |-> JSNull] }

Keys == {<<"a">>, <<"b">>}

\* the mapping after key -> value is inserted: a key that is there already
\* keeps its place and takes the new value
RefPut(properties, key, value) ==
  LET at == {i \in 1 .. Len(properties) : properties[i].key = key} IN
  IF at = {} THEN properties \o <<[key |-> key, value |-> value]>>
  ELSE [i \in 1 .. Len(properties) |->
          IF i \in at THEN [key |-> key, value |-> value] ELSE properties[i]]

\* the Values of n tokens, given the table of the derivations of fewer
DeriveValues(table, n) ==
  IF n = 1 THEN Scalars
  ELSE IF n = 2
    THEN { [text |-> <<"[", "]">>, value |-> JSList(<<>>)],
           [text |-> <<"{", "}">>, value |-> JSObject(<<>>)] }
  ELSE { [text |-> <<"[">> \o x.text \o <<"]">>, value |-> JSList(x.values)] :
           x \in table[n - 2].items }
       \cup
       { [text |-> <<"{">> \o x.text \o <<"}">>, value |-> JSObject(x.properties)] :
           x \in table[n - 2].pitems }

\* the non-empty comma-separated Value lists of n tokens
DeriveItems(table, val, n) ==
  { [text |-> v.text, values |-> <<v.value>>] : v \in val }
  \cup
  UNION { { [text |-> x.text \o <<",">> \o v.text,
             values |-> Append(x.values, v.value)] :
              x \in table[n - 1 - i].items, v \in table[i].val } :
          i \in 1 .. n - 2 }

\* the non-empty comma-separated Pair lists of n tokens
DerivePairs(table, n) ==
  IF n < 3 THEN {}
  ELSE
    { [text |-> <<"\"">> \o k \o <<"\"", ":">> \o v.text,
       properties |-> RefPut(<<>>, k, v.value)] :
        k \in Keys, v \in table[n - 2].val }
    \cup
    UNION { { [text |-> x.text \o <<",", "\"">> \o k \o <<"\"", ":">> \o v.text,
               properties |-> RefPut(x.properties, k, v.value)] :
                x \in table[n - 1 - m].pitems, k \in Keys,
                v \in table[m - 2].val } :
            m \in 3 .. n - 2 }

\* the derivations of n tokens, given the table of the derivations of fewer
DeriveEntry(table, n) ==
  CHOOSE entry \in { [val |-> val, items |-> DeriveItems(table, val, n),
                      pitems |-> DerivePairs(table, n)] :
                        val \in {DeriveValues(table, n)} } : TRUE

RECURSIVE DeriveUpTo(_)
\* the table of the derivations of 1 .. n tokens, each entry computed once
DeriveUpTo(n) ==
  IF n = 0 THEN <<>>
  ELSE CHOOSE next \in { Append(table, DeriveEntry(table, n)) :
                           table \in {DeriveUpTo(n - 1)} } : TRUE

\* the derivations of up to MaxTokens - 2 tokens: longer lists are not inside
\* any document of MaxTokens tokens
Derivations == DeriveUpTo(MaxTokens - 2)

\* the Values of n tokens, n <= MaxTokens
Values(n) ==
  IF n <= MaxTokens - 2 THEN Derivations[n].val ELSE DeriveValues(Derivations, n)

Input(class, text, expect) == [class |-> class, text |-> text, expect |-> expect]

\* the documents of n tokens of the grammar Value := Scalar | List | Object
GrammarInputs(n) ==
  { Input("grammar", d.text, d.value) : d \in Values(n) }

\* a complete top-level list or object, then further characters
Trailers ==
  { <<" ">>, <<"]">>, <<"}">>, <<",", "1">>, <<" ", "\"", "a">>,
    <<" ", "n", "u", "l", "l">>, <<" ", "g", "a", "r", "b", "a", "g", "e">>,
    <<"1", ".", "2", ".", "3">>, <<"[", "1", "]">>, <<"\n", "{">> }

TrailingInputs(n) ==
  { Input("trailing", d.text \o t, d.value) : d \in Values(n), t \in Trailers }

\* a list cut off directly after "[" (n = 0), after the last of its elements
\* of n tokens, or after the comma behind them
TruncatedLists(n) ==
  IF n = 0 THEN { Input("list-open", <<"[">>, NoValue) }
  ELSE { Input("list-element", <<"[">> \o x.text, NoValue) :
           x \in Derivations[n].items }
       \cup
       { Input("list-comma", <<"[">> \o x.text \o <<",">>, NoValue) :
           x \in Derivations[n].items }

\* an object cut off directly after "{" (n = 0), after a key (n = 1), after
\* the last of its pairs of n tokens, or after the comma behind them; expect
\* is the mapping of the pairs before the cut
TruncatedObjects(n) ==
  IF n = 0 THEN { Input("object-open", <<"{">>, JSObject(<<>>)) }
  ELSE IF n = 1
    THEN { Input("object-key", <<"{", "\"">> \o k \o <<"\"">>, NoValue) :
             k \in Keys }
  ELSE { Input("object-pair", <<"{">> \o x.text, JSObject(x.properties)) :
           x \in Derivations[n].pitems }
       \cup
       { Input("object-comma", <<"{">> \o x.text \o <<",">>,
               JSObject(x.properties)) :
           x \in Derivations[n].pitems }

Lexemes ==
  { <<"[">>, <<"]">>, <<"{">>, <<"}">>, <<",">>, <<":">>, <<"1">>,
    <<"\"", "a", "\"">> }

RawChars == {"1", ".", "\"", "a", " ", "\n", "[", "]", ",", "-"}

RECURSIVE Concatenations(_, _)
\* the texts made of at most n pieces
Concatenations(pieces, n) ==
  IF n = 0 THEN {<<>>}
  ELSE LET shorter == Concatenations(pieces, n - 1)
       IN  shorter \cup {t \o p : t \in shorter, p \in pieces}

\* any sequence of at most n tokens
LexemeInputs(n) ==
  { Input("tokens", t, NoValue) : t \in Concatenations(Lexemes, n) }

\* any text of at most n characters
RawInputs(n) ==
  { Input("raw", t, NoValue) : t \in Concatenations({<<c>> : c \in RawChars}, n) }

(***************************************************************************)
(* parse(content) as a state machine                                       *)
(***************************************************************************)
InitOn(inputs) ==
  /\ input \in inputs
  /\ source = input.text
  /\ tokeniser = NewTokeniser
  /\ parser = NoParser
  /\ pc = "tokenise"
  /\ result = Pending

Init ==
  \/ \E n \in 1 .. MaxTokens : InitOn(GrammarInputs(n))
  \/ \E n \in 2 .. MaxTrailTokens : InitOn(TrailingInputs(n))
  \/ \E n \in 0 .. MaxTruncTokens : InitOn(TruncatedLists(n))
  \/ \E n \in 0 .. MaxTruncTokens : InitOn(TruncatedObjects(n))
  \/ InitOn(LexemeInputs(MaxLexemes))
  \/ InitOn(RawInputs(MaxRaw))

\* the parser moves to Q; a throw ends the call
ParserMoves(Q) ==
  /\ parser' = Q
  /\ IF Q.error # NoError
     THEN pc' = "done" /\ result' = Threw(Q.error)
     ELSE UNCHANGED <<pc, result>>
  /\ UNCHANGED <<input, source, tokeniser>>

\* one pass of the loop of tokenise
Tokenise ==
  /\ pc = "tokenise"
  /\ Len(source) > tokeniser.index
  /\ tokeniser' = tokeniseIteration(tokeniser, source)
  /\ IF tokeniser'.error # NoError
     THEN pc' = "done" /\ result' = Threw(tokeniser'.error)
     ELSE UNCHANGED <<pc, result>>
  /\ UNCHANGED <<input, source, parser>>

\* tokenise returns its tokens; the Parser is built on them and parse() called
TokeniseReturns ==
  /\ pc = "tokenise"
  /\ ~(Len(source) > tokeniser.index)
  /\ parser' = NewParser(tokeniser.tokens)
  /\ pc' = "parse"
  /\ UNCHANGED <<input, source, tokeniser, result>>

ParseExpression ==
  /\ pc = "parse"
  /\ ~ParserDone(parser)
  /\ Top(parser).pc = "call"
  /\ ParserMoves(parseExpression(parser))

ParseArrayExpression ==
  /\ pc = "parse"
  /\ ~ParserDone(parser)
  /\ Top(parser).pc # "call"
  /\ Top(parser).fn = "parseArrayExpression"
  /\ ParserMoves(parseArrayExpression(parser))

ParseDictionary ==
  /\ pc = "parse"
  /\ ~ParserDone(parser)
  /\ Top(parser).pc # "call"
  /\ Top(parser).fn = "parseDictionary"
  /\ ParserMoves(parseDictionary(parser))

ParsePairExpression ==
  /\ pc = "parse"
  /\ ~ParserDone(parser)
  /\ Top(parser).pc # "call"
  /\ Top(parser).fn = "parsePairExpression"
  /\ ParserMoves(parsePairExpression(parser))

\* parser.parse() has returned the ast; getObject converts it
GetObject ==
  /\ pc = "parse"
  /\ ParserDone(parser)
  /\ result' = getObject(parserResult(parser))
  /\ pc' = "done"
  /\ UNCHANGED <<input, source, tokeniser, parser>>

Next ==
  \/ Tokenise
  \/ TokeniseReturns
  \/ ParseExpression
  \/ ParseArrayExpression
  \/ ParseDictionary
  \/ ParsePairExpression
  \/ GetObject

Spec == Init /\ [][Next]_vars

MaxLiveLexemes == 4

MaxLiveRaw == 3

\* the characters of the lexemes
LexemeChars == {"[", "]", "{", "}", ",", ":", "1", "\"", "a"}

\* the documents of n tokens written with the characters of the lexemes only
LiveGrammarInputs(n) ==
  { d \in GrammarInputs(n) : \A i \in 1 .. Len(d.text) : d.text[i] \in LexemeChars }

\* the completion of decode is checked on these, and on any short text
InitLive ==
  \/ \E n \in 1 .. MaxTokens : InitOn(LiveGrammarInputs(n))
  \/ InitOn(LexemeInputs(MaxLiveLexemes))
  \/ InitOn(RawInputs(MaxLiveRaw))

\* the same machine with the scheduling the code has: a synchronous call
\* keeps running until it returns or throws
SpecLive == InitLive /\ [][Next]_vars /\ WF_vars(Next)

MaxPadLexemes == 3

MaxPadTokens == 6

MaxPadRaw == 3

MaxPad == 2

\* the documents the padding is tried on
InitPad ==
  \/ \E n \in 1 .. MaxPadTokens : InitOn(GrammarInputs(n))
  \/ InitOn(LexemeInputs(MaxPadLexemes))
  \/ InitOn(RawInputs(MaxPadRaw))

SpecPad == InitPad /\ [][Next]_vars

(***************************************************************************)
(* Claims                                                                  *)
(***************************************************************************)
Done == pc = "done"

Located(error) == Len(error.at) = 2

IsContainer(value) == value.t \in {"list", "object"}

C3_TruncatedListUnexpectedEnd ==
  (Done /\ input.class \in {"list-open", "list-element", "list-comma"}) =>
    /\ result.status = "threw"
    /\ result.error.message = "Unexpected end"
    /\ Located(result.error)

\* C4: an object whose tokens run out directly after "{", after a complete
\* pair or after a comma makes decode fail with "Unexpected end"; no mapping
\* of the pairs read so far is returned.
C4_TruncatedObjectUnexpectedEnd ==
  (Done /\ input.class \in {"object-open", "object-pair", "object-comma"}) =>
    /\ result.status = "threw"
    /\ result.error.message = "Unexpected end"

\* C5: every error the tokeniser raises, for a number with more than one "."
\* and for an unknown word, carries the line:column of the offending token.
C5_LexerErrorsLocated ==
  tokeniser.error # NoError => Located(tokeniser.error)

\* C6: when the String key of a pair is not directly followed by ":", be it
\* by another token or by the end of the tokens, decode fails with the
\* located "Expected a separator" error.
C6_KeyWithoutSeparator ==
  ( /\ Done
    /\ Len(parser.stack) > 0
    /\ Top(parser).fn = "parsePairExpression"
    /\ Top(parser).pc = "enter"
    /\ Top(parser).next.type = "STRING"
    /\ TokenAt(parser, parser.index).type # "SEPARATOR" ) =>
    /\ result.status = "threw"
    /\ result.error.message = "Expected a separator"
    /\ Located(result.error)

\* the kinds and texts of a token sequence
KindsAndTexts(tokens) ==
  [i \in 1 .. Len(tokens) |-> <<tokens[i].type, tokens[i].value>>]

\* the characters a token covers: those after position TokenStart up to
\* position TokenEnd of the source
TokenStart(token) ==
  CASE token.type \in {"NUMBER", "BOOLEAN", "NULL"} ->
         token.loc.column.num - Len(token.value)
    [] token.type = "STRING" -> token.loc.column.num - Len(token.value) - 1
    [] OTHER -> token.loc.column.num

TokenEnd(token, src) ==
  CASE token.type \in {"NUMBER", "BOOLEAN", "NULL"} -> token.loc.column.num
    [] token.type = "STRING" ->
         IF token.loc.column.num < Len(src)
         THEN token.loc.column.num + 1 ELSE Len(src)
    [] OTHER -> token.loc.column.num + 1

\* a string token that the end of the source closed, not a quote
Unclosed(token, src) ==
  token.type = "STRING" /\ ~(token.loc.column.num < Len(src))

\* the places before the first token, between two tokens and after the last
Gaps(tokens, src) ==
  {p \in 0 .. Len(src) :
     \A i \in 1 .. Len(tokens) :
        ~(TokenStart(tokens[i]) < p /\ p < TokenEnd(tokens[i], src))}

\* the gaps that are not at the end of an unclosed string
ClosedGaps(tokens, src) ==
  {p \in Gaps(tokens, src) :
     \A i \in 1 .. Len(tokens) : Unclosed(tokens[i], src) => p < Len(src)}

Pads == Concatenations({<<" ">>, <<"\t">>}, MaxPad) \ {<<>>}

InsertAt(src, p, pad) == SubSeq(src, 1, p) \o pad \o SubSeq(src, p + 1, Len(src))

\* the padded document gives the same tokens and the same outcome
PaddingChangesNothing(p, pad) ==
  LET padded == InsertAt(source, p, pad)
      T      == tokenise(NewTokeniser, padded)
      r      == decode(padded)
  IN  /\ T.error = NoError
      /\ KindsAndTexts(T.tokens) = KindsAndTexts(tokeniser.tokens)
      /\ r.status = result.status
      /\ r.status = "returned" => r.value = result.value

\* C7 as stated: spaces and tabs inserted before the first token, between
\* two adjacent tokens or after the last token leave the kinds and texts of
\* the tokens unchanged, so decode succeeds on the padded document exactly
\* when it succeeds on the original, with the same value.
C7_PaddingInsensitive ==
  (Done /\ tokeniser.error = NoError) =>
    \A p \in Gaps(tokeniser.tokens, source) : \A pad \in Pads :
       PaddingChangesNothing(p, pad)

\* C7 amended: the same, except after a last token that is a string lacking
\* its closing quote: there the inserted characters join the string's text.
C7_PaddingInsensitiveClosed ==
  (Done /\ tokeniser.error = NoError) =>
    \A p \in ClosedGaps(tokeniser.tokens, source) : \A pad \in Pads :
       PaddingChangesNothing(p, pad)

\* a document of several tokens was decoded to a value, with gaps to pad
C7_Witness ==
  /\ Done
  /\ input.class = "grammar"
  /\ result.status = "returned"
  /\ Len(tokeniser.tokens) >= 3
  /\ Cardinality(ClosedGaps(tokeniser.tokens, source)) >= 4

\* the parser is where a call of parseArrayExpression has just returned
ListReturned ==
  /\ pc = "parse"
  /\ parser.error = NoError
  /\ Top(parser).pc = "value"
  /\ parser.ret.type = "List"

\* C8: a list is closed only by "]": when parseArrayExpression returns a
\* List node the cursor is on a RightSquare token.
C8_ListClosedBySquare ==
  ListReturned => TokenAt(parser, parser.index).type = "RIGHT_SQUARE"

RECURSIVE HasAbsentValue(_)
\* some Property of the tree has no value
HasAbsentValue(node) ==
  CASE node.type = "List" ->
         \E i \in 1 .. Len(node.elements) : HasAbsentValue(node.elements[i])
    [] node.type = "Object" ->
         \E i \in 1 .. Len(node.value) :
            \/ IsUndefined(node.value[i].value)
            \/ HasAbsentValue(node.value[i].value)
    [] OTHER -> FALSE

\* C9: in every tree parse returns, each Property of an Object has a value,
\* so the conversion to a value cannot fail on it.
C9_PropertiesHaveValues ==
  (Done /\ parser.error = NoError /\ Len(parser.stack) = 1) =>
    /\ ~HasAbsentValue(parser.ret)
    /\ (parser.ret.type \in {"List", "Object"} => result.status = "returned")

\* a pass of the tokeniser's loop ends with the source cursor further on
LexerPassAdvances ==
  (pc = "tokenise" /\ tokeniser' # tokeniser) => tokeniser'.index > tokeniser.index

\* no step of the parser moves the token cursor back
CursorNeverBack == parser'.index >= parser.index

\* the top frame is a loop of the function fn whose pass ends in this step
\* after the element or pair it read
PassEndsAfterValue(fn) ==
  /\ pc = "parse"
  /\ ~ParserDone(parser)
  /\ Top(parser).fn = fn
  /\ Top(parser).pc = "value"
  /\ parser'.error = NoError

\* the list loop's pass that finds "]" where an element would begin
PassEndsAtSquare ==
  /\ pc = "parse"
  /\ ~ParserDone(parser)
  /\ Top(parser).fn = "parseArrayExpression"
  /\ Top(parser).pc = "while"
  /\ ~IsUndefined(Top(parser).next)
  /\ ~listLoopEnds(Top(parser).next)
  /\ TokenAt(parser, parser.index).type = "RIGHT_SQUARE"

====
